---------------------------- MODULE Spec2Model ----------------------------
(* A model of kevinbuckley/poster: the tweet clamp, the constrained       *)
(* generation loop, the publisher with its v2 -> v1.1 fallback, and the   *)
(* queue pop tool.  Strings are sequences of one-character strings.       *)
EXTENDS Integers, Sequences, FiniteSets, TLC

VARIABLES
    pc,             \* position of the running entry point
    env,            \* os.environ: variable name -> value (None when unset)
    text,           \* clamp_tweet: argument text
    max_len,        \* clamp_tweet: argument max_len
    result,         \* clamp_tweet: returned string
    entry,          \* which function of poster.py runs the generation loop
    attempts,       \* generation loop: local `attempts`
    market_wrap,    \* generation loop: local `market_wrap`
    gen_log,        \* outcomes of Generator.generate_summary, in call order
    publish_log,    \* calls of post_tweet and post_reply_tweet with their results, in order
    transport_log,  \* transport invocations (tweepy calls), in call order
    ret,            \* returned value / raised exception of the entry point
    fs,             \* the file system: path -> parsed JSON content (NoFile when absent)
    built,          \* the queue file as the build tool wrote it
    pop_run,        \* the pop tool: the latest run (what it loaded, its outcome, exit code)
    history,        \* the pop tool: publish calls of the runs since the build, in order
    requests,       \* the build tool: batched remote requests with what came back, in order
    procs           \* overlapping tool runs: process -> its position and local variables

vars == <<pc, env, text, max_len, result, entry, attempts, market_wrap,
          gen_log, publish_log, transport_log, ret, fs, built, pop_run, history,
          requests, procs>>

-----------------------------------------------------------------------------
(* Values *)

None == "None"
NoneText == <<"None">>       \* Python None where a str is expected

SP == " "
TAB == "\t"
ELLIPSIS == "U+2026"         \* the single character appended by clamp_tweet
LETTER == "a"

Whitespace == {SP, TAB}
Chars == {LETTER, SP, TAB, ELLIPSIS}

MAX_TWEET_LEN == 280

\* Bounds of the exhaustive clamp_tweet check
MaxTextLen == 4
MaxMaxLen == 3

RECURSIVE SeqsUpTo(_, _)
SeqsUpTo(S, n) ==
    IF n = 0 THEN {<<>>}
    ELSE LET shorter == SeqsUpTo(S, n - 1)
         IN  shorter \cup {Append(s, c) : s \in {t \in shorter : Len(t) = n - 1}, c \in S}

Rep(c, n) == [i \in 1..n |-> c]

MinOf(S) == CHOOSE x \in S : \A y \in S : x <= y
MaxOf(S) == CHOOSE x \in S : \A y \in S : x >= y

-----------------------------------------------------------------------------
(* Python string primitives used by clamp_tweet *)

\* str.strip(): drop leading and trailing whitespace
Strip(s) ==
    LET solid == {i \in 1..Len(s) : s[i] \notin Whitespace}
    IN  IF solid = {} THEN <<>> ELSE SubSeq(s, MinOf(solid), MaxOf(solid))

\* str.split() with no separator: the maximal runs of non-whitespace, in order
Split(s) ==
    LET starts == {i \in 1..Len(s) : s[i] \notin Whitespace
                                     /\ (i = 1 \/ s[i - 1] \in Whitespace)}
        ends   == {i \in 1..Len(s) : s[i] \notin Whitespace
                                     /\ (i = Len(s) \/ s[i + 1] \in Whitespace)}
        Kth(S, k) == CHOOSE x \in S : Cardinality({y \in S : y <= x}) = k
    IN  [k \in 1..Cardinality(starts) |-> SubSeq(s, Kth(starts, k), Kth(ends, k))]

\* sep.join(words)
RECURSIVE Join(_, _)
Join(sep, words) ==
    IF Len(words) = 0 THEN <<>>
    ELSE IF Len(words) = 1 THEN words[1]
    ELSE words[1] \o sep \o Join(sep, Tail(words))

\* s[:k] for any integer k (a negative k counts from the end)
SliceTo(s, k) ==
    IF k >= 0 THEN SubSeq(s, 1, IF k < Len(s) THEN k ELSE Len(s))
    ELSE SubSeq(s, 1, IF Len(s) + k > 0 THEN Len(s) + k ELSE 0)

\* (text or "")
OrEmpty(t) == IF t = NoneText \/ t = <<>> THEN <<>> ELSE t

\* " ".join((text or "").strip().split())
Collapse(t) == Join(<<SP>>, Split(Strip(OrEmpty(t))))

\* (mutant) the cut keeps max_len characters instead of max_len - 1
clamp_tweet_cut_at_max_len(t, n) ==
    LET collapsed == Collapse(t)
    IN  IF Len(collapsed) <= n THEN collapsed
        ELSE SliceTo(collapsed, n) \o <<ELLIPSIS>>

clamp_tweet(t, n) ==
    LET collapsed == Collapse(t)
    IN  IF Len(collapsed) <= n THEN collapsed
        ELSE SliceTo(collapsed, n - 1) \o <<ELLIPSIS>>


-----------------------------------------------------------------------------
(* Inputs *)

\* every text of at most MaxTextLen characters over Chars, and None
ShortTexts == SeqsUpTo(Chars, MaxTextLen) \cup {NoneText}

\* texts around the tweet limit: at the limit, one over, over only through
\* whitespace that collapses away, all whitespace, an ellipsis at the cut
LongTexts ==
    { Rep(LETTER, MAX_TWEET_LEN),
      Rep(LETTER, MAX_TWEET_LEN + 1),
      Rep(LETTER, MAX_TWEET_LEN + 7),
      Rep(LETTER, 100) \o <<SP, SP>> \o Rep(LETTER, MAX_TWEET_LEN - 101),
      <<SP>> \o Rep(LETTER, MAX_TWEET_LEN) \o <<TAB>>,
      Rep(SP, MAX_TWEET_LEN + 3),
      Rep(LETTER, MAX_TWEET_LEN - 2) \o <<ELLIPSIS, ELLIPSIS, LETTER>>,
      <<SP>> \o Rep(LETTER, MAX_TWEET_LEN + 2) }

\* Unused parts of the state keep these values.
IdleClamp == text = NoneText /\ max_len = 0 /\ result = NoneText
IdleGen   == entry = None /\ attempts = 0 /\ market_wrap = None /\ gen_log = <<>>
IdleRet   == ret = None
IdlePost  == publish_log = <<>> /\ transport_log = <<>>
IdleFs    == fs = None
IdleEnv   == env = None
IdleTools ==
    built = None /\ pop_run = None /\ history = <<>> /\ requests = <<>> /\ procs = None

-----------------------------------------------------------------------------
(* clamp_tweet as a call: SpecClamp *)

InitClamp ==
    /\ pc = "clamp_call"
    /\ \/ text \in ShortTexts /\ max_len \in 0..MaxMaxLen
       \/ text \in LongTexts /\ max_len = MAX_TWEET_LEN     \* the default max_len
    /\ result = NoneText
    /\ IdleRet /\ IdleGen /\ IdlePost /\ IdleFs /\ IdleEnv /\ IdleTools

ClampTweet ==
    /\ pc = "clamp_call"
    /\ result' = clamp_tweet(text, max_len)
    /\ pc' = "clamp_done"
    /\ UNCHANGED <<env, text, max_len, entry, attempts, market_wrap, gen_log,
                   publish_log, transport_log, ret, fs>>
    /\ UNCHANGED <<built, pop_run, history, requests, procs>>

NextClamp == ClampTweet

SpecClamp == InitClamp /\ [][NextClamp]_vars

\* Reference for "trim and collapse every whitespace run to one space": every
\* non-whitespace character is kept, in order, and exactly one space stands
\* between two words (a word ends where the next character is not part of it).
Collapsed(t) ==
    LET s == IF t = NoneText THEN <<>> ELSE t
        solid == {i \in 1..Len(s) : s[i] \notin Whitespace}
        wordEnds == {i \in solid : (i + 1) \notin solid}
        place == [i \in solid |-> Cardinality({j \in solid : j <= i})
                                  + Cardinality({j \in wordEnds : j < i})]
        total == IF solid = {} THEN 0
                 ELSE Cardinality(solid) + Cardinality(wordEnds) - 1
    IN  [p \in 1..total |->
            IF \E i \in solid : place[i] = p
            THEN s[CHOOSE i \in solid : place[i] = p]
            ELSE SP]

EndsInOneEllipsis(s) ==
    /\ Len(s) >= 1 /\ s[Len(s)] = ELLIPSIS
    /\ (Len(s) >= 2 => s[Len(s) - 1] # ELLIPSIS)

\* C3: for every text and every max_len >= 0, clamp_tweet(text, max_len) has
\* length <= max_len.  (Violated at max_len = 0: text[:-1] drops one character
\* only, and the ellipsis is appended.)
C3_ClampWithinMaxLen ==
    pc = "clamp_done" => Len(result) <= max_len

\* C4 as claimed, for max_len >= 1: the collapsed text is returned as is when it
\* fits; otherwise the first max_len-1 characters plus one ellipsis, of length
\* exactly max_len, ending in exactly one ellipsis character.
C4_EndsInExactlyOneEllipsis ==
    (pc = "clamp_done" /\ max_len >= 1) =>
        LET c == Collapsed(text)
        IN  /\ Len(c) <= max_len => result = c
            /\ Len(c) > max_len =>
                  /\ result = SubSeq(c, 1, max_len - 1) \o <<ELLIPSIS>>
                  /\ Len(result) = max_len
                  /\ EndsInOneEllipsis(result)

\* C4 amended: the collapsed text is returned as is when it fits; otherwise the
\* result is a prefix of the collapsed text followed by one appended ellipsis,
\* so its last character is an ellipsis; for max_len >= 1 that prefix is the
\* first max_len-1 characters and the length is exactly max_len.  The
\* character before the appended ellipsis may itself be an ellipsis.
C4_ClampShape ==
    pc = "clamp_done" =>
        LET c == Collapsed(text)
        IN  /\ Len(c) <= max_len => result = c
            /\ Len(c) > max_len =>
                  /\ Len(result) >= 1
                  /\ result[Len(result)] = ELLIPSIS
                  /\ Len(result) - 1 <= Len(c)
                  /\ SubSeq(result, 1, Len(result) - 1) = SubSeq(c, 1, Len(result) - 1)
                  /\ max_len >= 1 => Len(result) = max_len

\* C4 witness: a text cut at max_len whose last kept character is an ellipsis
C4_Witness ==
    /\ pc = "clamp_done" /\ max_len >= 2
    /\ Len(Collapsed(text)) > max_len
    /\ result[max_len - 1] = ELLIPSIS
    /\ \E i \in 1..Len(text) : text[i] \in Whitespace

-----------------------------------------------------------------------------
(* Generator.generate_summary and the generation loop: SpecGen *)

MAX_ATTEMPTS == 5

\* NewsTopicWrap(tweet, summary, citations)
NewsTopicWrap(tw, su, ci) ==
    [kind |-> "wrap", tweet |-> tw, summary |-> su, citations |-> ci]

\* None where a NewsTopicWrap is expected
NoWrap == [kind |-> "None", tweet |-> NoneText, summary |-> "", citations |-> <<>>]

\* an exception raised by generate_summary
GenerationError(why) ==
    [kind |-> "error", tweet |-> NoneText, summary |-> why, citations |-> <<>>]

\* tweets the remote model may send: within the limit, at it, over it, and
\* over it only through a whitespace run that collapses away
GenTweets ==
    { <<LETTER, SP, LETTER>>,
      Rep(LETTER, MAX_TWEET_LEN),
      Rep(LETTER, MAX_TWEET_LEN + 1),
      Rep(LETTER, 100) \o <<SP, SP>> \o Rep(LETTER, MAX_TWEET_LEN - 101) }

GenBodies == { [summary |-> "summary-1", citations |-> <<"https://a">>],
               [summary |-> "summary-2", citations |-> <<>>] }

\* what openai_client.responses.parse does: raise, or answer
Responses ==
    { [raises |-> TRUE,  output |-> FALSE, output_parsed |-> NoWrap],
      [raises |-> FALSE, output |-> FALSE, output_parsed |-> NoWrap],
      [raises |-> FALSE, output |-> TRUE,  output_parsed |-> NoWrap] }
    \cup { [raises |-> FALSE, output |-> TRUE,
            output_parsed |-> NewsTopicWrap(tw, b.summary, b.citations)] :
           tw \in GenTweets, b \in GenBodies }

generate_summary(resp) ==
    IF resp.raises THEN GenerationError("remote call raised")
    ELSE IF ~resp.output THEN GenerationError("No output from OpenAI")
    ELSE IF resp.output_parsed.kind # "wrap" THEN GenerationError("Output is not a MarketWrap")
    ELSE resp.output_parsed

\* (mutant) the loop runs one pass too many
LoopContinuesOffByOne(n) == n <= MAX_ATTEMPTS

\* while attempts < 5
LoopContinues(n) == n < MAX_ATTEMPTS

\* len(tweet_text) <= MAX_TWEET_LEN, with tweet_text = market_wrap.tweet or ""
TweetFits(w) == Len(OrEmpty(w.tweet)) <= MAX_TWEET_LEN

\* (mutant) the final safety clamp is skipped
NeedsClampNever(w) == FALSE

\* market_wrap and len(market_wrap.tweet or "") > MAX_TWEET_LEN
NeedsClamp(w) == w # NoWrap /\ Len(OrEmpty(w.tweet)) > MAX_TWEET_LEN

\* (mutant) a plain cut at the limit instead of clamp_tweet
ClampedWrapPlainCut(w) == [w EXCEPT !.tweet = SliceTo(w.tweet, MAX_TWEET_LEN)]

\* market_wrap.tweet = clamp_tweet(market_wrap.tweet, MAX_TWEET_LEN)
ClampedWrap(w) == [w EXCEPT !.tweet = clamp_tweet(w.tweet, MAX_TWEET_LEN)]

GenEntries == {"generate_market_wrap", "generate_response_tweet", "main"}

InitGen ==
    /\ entry \in GenEntries
    /\ pc = "gen_loop"
    /\ attempts = 0
    /\ market_wrap = NoWrap
    /\ gen_log = <<>>
    /\ ret = NoWrap
    /\ IdleClamp /\ IdlePost /\ IdleFs /\ IdleEnv /\ IdleTools

\* (mutant) the loop catches a generation error and retries
GenerateSummaryCallCatching ==
    /\ pc = "gen_loop"
    /\ \E resp \in Responses :
         LET out == generate_summary(resp)
         IN  /\ gen_log' = Append(gen_log, out)
             /\ ret' = ret
             /\ IF out.kind = "error"
                THEN /\ market_wrap' = market_wrap
                     /\ attempts' = attempts + 1
                     /\ pc' = IF attempts + 1 < MAX_ATTEMPTS THEN "gen_loop" ELSE "gen_final"
                ELSE /\ market_wrap' = out
                     /\ IF Len(OrEmpty(out.tweet)) <= MAX_TWEET_LEN
                        THEN /\ pc' = "gen_final"
                             /\ attempts' = attempts
                        ELSE /\ attempts' = attempts + 1
                             /\ pc' = IF attempts + 1 < MAX_ATTEMPTS
                                      THEN "gen_loop" ELSE "gen_final"
    /\ UNCHANGED <<env, text, max_len, result, entry, publish_log, transport_log, fs>>
    /\ UNCHANGED <<built, pop_run, history, requests, procs>>

\* one pass of the while body: the Generator call, the length test, the count
GenerateSummaryCall ==
    /\ pc = "gen_loop"
    /\ \E resp \in Responses :
         LET out == generate_summary(resp)
         IN  /\ gen_log' = Append(gen_log, out)
             /\ IF out.kind = "error"
                THEN /\ pc' = "gen_raised"          \* no try/except around the call
                     /\ ret' = out
                     /\ UNCHANGED <<attempts, market_wrap>>
                ELSE /\ market_wrap' = out
                     /\ ret' = ret
                     /\ IF TweetFits(out)
                        THEN /\ pc' = "gen_final"   \* break
                             /\ attempts' = attempts
                        ELSE /\ attempts' = attempts + 1
                             /\ pc' = IF LoopContinues(attempts + 1)
                                      THEN "gen_loop" ELSE "gen_final"
    /\ UNCHANGED <<env, text, max_len, result, entry, publish_log, transport_log, fs>>
    /\ UNCHANGED <<built, pop_run, history, requests, procs>>

\* the final safety clamp and the return
FinalClamp ==
    /\ pc = "gen_final"
    /\ market_wrap' = IF NeedsClamp(market_wrap) THEN ClampedWrap(market_wrap)
                      ELSE market_wrap
    /\ ret' = market_wrap'
    /\ pc' = "gen_returned"
    /\ UNCHANGED <<env, text, max_len, result, entry, attempts, gen_log,
                   publish_log, transport_log, fs>>
    /\ UNCHANGED <<built, pop_run, history, requests, procs>>

\* main: post_tweet(market_wrap.tweet, account="primary"); post_tweet has no
\* parameter named account, so the call raises TypeError before its body runs,
\* with or without --conversation; the lines after it are never reached
MainPostPrimary ==
    /\ pc = "gen_returned"
    /\ entry = "main"
    /\ pc' = "main_raised"
    /\ ret' = [NoWrap EXCEPT !.kind = "TypeError"]
    /\ UNCHANGED <<env, text, max_len, result, entry, attempts, market_wrap,
                   gen_log, publish_log, transport_log, fs>>
    /\ UNCHANGED <<built, pop_run, history, requests, procs>>

NextGen == GenerateSummaryCall \/ FinalClamp \/ MainPostPrimary

SpecGen == InitGen /\ [][NextGen]_vars

OverLength(out) == out.kind = "wrap" /\ Len(out.tweet) > 280

AllFiveOverLength ==
    Len(gen_log) = 5 /\ \A i \in 1..5 : OverLength(gen_log[i])

\* C1: whenever generate_market_wrap or generate_response_tweet returns
\* normally, the returned post's tweet has length <= 280.
C1_ReturnedTweetWithinLimit ==
    pc = "gen_returned" => (ret.kind = "wrap" /\ Len(ret.tweet) <= 280)

\* C1 witness: a return after five over-length results, cut to exactly 280
C1_Witness ==
    /\ pc = "gen_returned"
    /\ AllFiveOverLength
    /\ Len(ret.tweet) = 280
    /\ ret.tweet[280] = ELLIPSIS

\* C2: at most 5 Generator calls in one run; every call before the last one
\* gave an over-length result, so no call follows the first result that fits;
\* and a last result that fits is returned unmodified.
C2_AtMostFiveCallsStopAtFirstFit ==
    /\ Len(gen_log) <= 5
    /\ \A i \in 1..(Len(gen_log) - 1) : OverLength(gen_log[i])
    /\ (pc = "gen_returned" /\ ~OverLength(gen_log[Len(gen_log)]))
          => ret = gen_log[Len(gen_log)]

\* C2 witness: over-length on attempts 1-4, a fitting 5th result, returned
C2_Witness ==
    /\ pc = "gen_returned"
    /\ Len(gen_log) = 5
    /\ \A i \in 1..4 : OverLength(gen_log[i])
    /\ gen_log[5].kind = "wrap" /\ Len(gen_log[5].tweet) <= 280
    /\ ret = gen_log[5]

\* C5: if all 5 results are over-length, the returned object is the 5th result
\* with its tweet replaced by clamp_tweet(5th tweet, 280); summary and
\* citations are the 5th result's.
C5_ExhaustedReturnsClampedLast ==
    (pc = "gen_returned" /\ AllFiveOverLength) =>
        /\ ret.tweet = clamp_tweet(gen_log[5].tweet, 280)
        /\ ret.summary = gen_log[5].summary
        /\ ret.citations = gen_log[5].citations
        /\ ret.kind = "wrap"

\* C5 witness: the 5th result differs from the 4th in tweet, summary and citations
C5_Witness ==
    /\ pc = "gen_returned"
    /\ AllFiveOverLength
    /\ gen_log[4].summary # gen_log[5].summary
    /\ gen_log[4].citations # gen_log[5].citations
    /\ gen_log[4].tweet # gen_log[5].tweet
    /\ ret.summary = gen_log[5].summary

GenerationFailed == gen_log # <<>> /\ gen_log[Len(gen_log)].kind = "error"

\* C6: a generation error raised by a Generator call in the loop reaches the
\* caller as that error (no substitute content is returned), nothing has been
\* published, and afterwards no Generator call and no publish happens.
C6_GenerationErrorPropagates ==
    /\ [](GenerationFailed =>
            /\ pc = "gen_raised"
            /\ ret = gen_log[Len(gen_log)]
            /\ transport_log = <<>>)
    /\ [][GenerationFailed =>
            /\ gen_log' = gen_log
            /\ transport_log' = transport_log
            /\ ret' = ret]_vars

\* C6 witness: main's generation loop fails on its third Generator call
C6_Witness ==
    /\ pc = "gen_raised"
    /\ entry = "main"
    /\ Len(gen_log) = 3
    /\ ret.kind = "error"

-----------------------------------------------------------------------------
(* Environment and credentials *)

Suffixes == {"X_CONSUMER_KEY", "X_CONSUMER_SECRET", "X_ACCESS_TOKEN",
             "X_ACCESS_TOKEN_SECRET"}

\* account_prefix values: None, the empty string, a named account
Prefixes == {None, "", "ALT"}

\* a variable name is the sequence of its parts: <<"ALT", "_", "X_CONSUMER_KEY">>
EnvNames == {<<sfx>> : sfx \in Suffixes} \cup {<<"ALT", "_", sfx>> : sfx \in Suffixes}
            \cup {<<"DRY_RUN">>}

Truthy(v) == v # None /\ v # ""

\* os.environ.get(key) / os.getenv(key)
Getenv(e, key) == IF key \in DOMAIN e THEN e[key] ELSE None

\* key = f"{prefix}_{var_suffix}" if prefix else var_suffix
_get_env_with_prefix(e, prefix, var_suffix) ==
    Getenv(e, IF Truthy(prefix) THEN <<prefix, "_", var_suffix>> ELSE <<var_suffix>>)

NoCreds == [consumer_key |-> None, consumer_secret |-> None,
            access_token |-> None, access_secret |-> None]

_load_twitter_credentials(e, prefix) ==
    LET consumer_key    == _get_env_with_prefix(e, prefix, "X_CONSUMER_KEY")
        consumer_secret == _get_env_with_prefix(e, prefix, "X_CONSUMER_SECRET")
        access_token    == _get_env_with_prefix(e, prefix, "X_ACCESS_TOKEN")
        access_secret   == _get_env_with_prefix(e, prefix, "X_ACCESS_TOKEN_SECRET")
    IN  IF ~(\A v \in {consumer_key, consumer_secret, access_token, access_secret} :
                Truthy(v))
        THEN NoCreds
        ELSE [consumer_key |-> consumer_key, consumer_secret |-> consumer_secret,
              access_token |-> access_token, access_secret |-> access_secret]

\* (mutant) the credentials are looked up without the account prefix
ClientsRaiseUnprefixed(e, prefix) == _load_twitter_credentials(e, None) = NoCreds

\* get_twitter_clients raises RuntimeError("Missing Twitter credentials ...")
ClientsRaise(e, prefix) == _load_twitter_credentials(e, prefix) = NoCreds

\* (mutant) dry-run is never on
DRY_RUN_off(e) == FALSE

\* DRY_RUN = os.getenv("DRY_RUN", "0") == "1"
DRY_RUN(e) == (IF <<"DRY_RUN">> \in DOMAIN e /\ e[<<"DRY_RUN">>] # None
               THEN e[<<"DRY_RUN">>] ELSE "0") = "1"

-----------------------------------------------------------------------------
(* The two transports *)

\* twitter_client_v2.create_tweet: raises, or a response whose data (a dict or
\* an object, when present) may hold an id
V2Outcomes ==
    { [raises |-> TRUE,  has_data |-> FALSE, data_is_dict |-> FALSE, id |-> None],
      [raises |-> FALSE, has_data |-> FALSE, data_is_dict |-> FALSE, id |-> None] }
    \cup { [raises |-> FALSE, has_data |-> TRUE, data_is_dict |-> d, id |-> i] :
           d \in BOOLEAN, i \in {None, "1001"} }

\* twitter_client.update_status: raises, or a response with or without id_str
V1Outcomes ==
    { [raises |-> TRUE,  has_id_str |-> FALSE, id_str |-> None],
      [raises |-> FALSE, has_id_str |-> FALSE, id_str |-> None],
      [raises |-> FALSE, has_id_str |-> TRUE,  id_str |-> "2002"] }

\* one invocation of a transport, with whether it raised
TransportCall(transport, method, t, reply_to, raised) ==
    [transport |-> transport, method |-> method, text |-> t, reply_to |-> reply_to,
     raised |-> raised]

Returns(v, calls) == [kind |-> "return", value |-> v, calls |-> calls]
Raises(exc, calls) == [kind |-> "raise", value |-> exc, calls |-> calls]

\* tweet_id read off a v2 response
V2TweetId(resp) == IF resp.has_data THEN resp.id ELSE None

\* tweet_id = resp.id_str if hasattr(resp, "id_str") else None
V1TweetId(resp) == IF resp.has_id_str THEN resp.id_str ELSE None

\* (mutant) post_tweet lets the v1.1 error propagate
post_tweet_propagating(e, t, prefix, v2, v1) ==
    IF DRY_RUN(e) THEN Returns("dry_run_tweet_id", <<>>)
    ELSE IF ClientsRaise(e, prefix) THEN Raises("RuntimeError", <<>>)
    ELSE LET c2 == TransportCall("v2", "create_tweet", t, None, v2.raises)
             c1 == TransportCall("v1.1", "update_status", t, None, v1.raises)
         IN  IF ~v2.raises THEN Returns(V2TweetId(v2), <<c2>>)
             ELSE IF ~v1.raises THEN Returns(V1TweetId(v1), <<c2, c1>>)
             ELSE Raises("Exception", <<c2, c1>>)

post_tweet(e, t, prefix, v2, v1) ==
    IF DRY_RUN(e) THEN Returns("dry_run_tweet_id", <<>>)
    ELSE IF ClientsRaise(e, prefix) THEN Raises("RuntimeError", <<>>)
    ELSE LET c2 == TransportCall("v2", "create_tweet", t, None, v2.raises)
             c1 == TransportCall("v1.1", "update_status", t, None, v1.raises)
         IN  IF ~v2.raises THEN Returns(V2TweetId(v2), <<c2>>)
             ELSE IF ~v1.raises THEN Returns(V1TweetId(v1), <<c2, c1>>)
             ELSE Returns(None, <<c2, c1>>)       \* except Exception: return None

\* (mutant) the v1.1 fallback of a reply drops in_reply_to_status_id and is
\* also tried when v2 returned no id
post_reply_tweet_loose(e, t, reply_to_tweet_id, prefix, v2, v1) ==
    IF DRY_RUN(e) THEN Returns("dry_run_reply_id", <<>>)
    ELSE IF ClientsRaise(e, prefix) THEN Raises("RuntimeError", <<>>)
    ELSE LET c2 == TransportCall("v2", "create_tweet", t, reply_to_tweet_id, v2.raises)
             c1 == TransportCall("v1.1", "update_status", t, None, v1.raises)
         IN  IF ~v2.raises /\ V2TweetId(v2) # None THEN Returns(V2TweetId(v2), <<c2>>)
             ELSE IF ~v1.raises THEN Returns(V1TweetId(v1), <<c2, c1>>)
             ELSE Returns(None, <<c2, c1>>)

post_reply_tweet(e, t, reply_to_tweet_id, prefix, v2, v1) ==
    IF DRY_RUN(e) THEN Returns("dry_run_reply_id", <<>>)
    ELSE IF ClientsRaise(e, prefix) THEN Raises("RuntimeError", <<>>)
    ELSE LET c2 == TransportCall("v2", "create_tweet", t, reply_to_tweet_id, v2.raises)
             c1 == TransportCall("v1.1", "update_status", t, reply_to_tweet_id, v1.raises)
         IN  IF ~v2.raises THEN Returns(V2TweetId(v2), <<c2>>)
             ELSE IF ~v1.raises THEN Returns(V1TweetId(v1), <<c2, c1>>)
             ELSE Returns(None, <<c2, c1>>)       \* except Exception: return None

PublishCall(op, t, reply_to, prefix, r) ==
    [op |-> op, text |-> t, reply_to |-> reply_to, prefix |-> prefix,
     kind |-> r.kind, value |-> r.value]

-----------------------------------------------------------------------------
(* The queue file *)

DefaultPath == "queue.json"
OtherPath == "other.json"
Paths == {DefaultPath, OtherPath}

QueueItem(topic, tw) ==
    [topic |-> topic, tweet |-> tw, summary |-> "",
     citations |-> <<>>, created_at |-> "t0"]

NoItem == [topic |-> None, tweet |-> NoneText, summary |-> None,
           citations |-> <<>>, created_at |-> None]

Item1 == QueueItem("topic-1", <<LETTER, SP, LETTER>>)
Item2 == QueueItem("topic-2", <<SP, LETTER, TAB, SP, ELLIPSIS>>)
Items == {Item1, Item2}

\* an item whose tweet is over the limit: the build does not check the length
ItemLong == QueueItem("topic-3", Rep(LETTER, MAX_TWEET_LEN + 7))

\* longest queue a build leaves in the file
MaxQueue == 2

\* queues a build may leave: every short one, and two holding the long item
BuiltQueues == SeqsUpTo(Items, MaxQueue) \cup {<<ItemLong>>, <<Item1, ItemLong>>}

\* no file at the path
NoFile == [exists |-> FALSE, queue |-> <<>>, generated_at |-> None,
           thread_root_id |-> None, last_posted |-> NoItem,
           dry_run |-> None, error |-> None]

\* the file as generate_queue / write_queue_file leaves it
BuiltFile(q) == [NoFile EXCEPT !.exists = TRUE, !.queue = q, !.generated_at = "t0"]

\* the file as save_queue leaves it: only the keys of save_payload
SavedFile(q, item, root, dry) ==
    [NoFile EXCEPT !.exists = TRUE, !.queue = q, !.last_posted = item,
                   !.thread_root_id = root,
                   !.dry_run = IF dry THEN "true" ELSE None]

\* load_queue(path)
load_queue(files, path) ==
    IF ~files[path].exists THEN [NoFile EXCEPT !.queue = <<>>] ELSE files[path]

\* (mutant) the write never reaches the file
save_queue_lost(files, data, path) == files

\* save_queue(data, path)
save_queue(files, data, path) == [files EXCEPT ![path] = data]

-----------------------------------------------------------------------------
(* pop_and_post *)

\* dry_run = os.getenv("DRY_RUN", "0") == "1", read by pop_and_post itself; the
\* process environment is the one poster.py read DRY_RUN from at import
PopDryRun(e) == (IF Getenv(e, <<"DRY_RUN">>) # None
                 THEN Getenv(e, <<"DRY_RUN">>) ELSE "0") = "1"

\* (mutant) the head item is written back with the rest of the queue
SavePayloadKeepingHead(rest, item, root, dry) ==
    SavedFile(<<item>> \o rest, item, IF Truthy(root) THEN root ELSE None, dry)

\* save_payload: queue, last_posted, thread_root_id if set, dry_run if on
SavePayload(rest, item, root, dry) ==
    SavedFile(rest, item, IF Truthy(root) THEN root ELSE None, dry)

\* (mutant) an empty queue is written back to the file
PopEmptySaving(files) ==
    [kind |-> "return", value |-> "False",
     files |-> save_queue(files, SavedFile(<<>>, NoItem, None, FALSE), DefaultPath),
     publishes |-> <<>>, calls |-> <<>>]

\* if not queue: print(...); return False
PopEmpty(files) ==
    [kind |-> "return", value |-> "False", files |-> files,
     publishes |-> <<>>, calls |-> <<>>]

\* (mutant) the returned id becomes the thread root in dry-run too
NewRootAlsoInDryRun(thread_root_id, tweet_id, dry_run) ==
    IF ~Truthy(thread_root_id) /\ Truthy(tweet_id) THEN tweet_id ELSE thread_root_id

\* thread_root_id after the publish: a fresh post's id, outside dry-run
NewRoot(thread_root_id, tweet_id, dry_run) ==
    IF ~Truthy(thread_root_id) /\ Truthy(tweet_id) /\ ~dry_run
    THEN tweet_id ELSE thread_root_id

\* (mutant) the item's tweet goes to the publisher as it is
TweetTextUnclamped(item) == item.tweet

\* tweet_text = clamp_tweet(item.get("tweet", ""))
TweetText(item) == clamp_tweet(item.tweet, MAX_TWEET_LEN)

\* (mutant) True whenever the run reaches its end
PopReturnValueAlwaysTrue(tweet_id) == "True"

\* return tweet_id is not None
PopReturnValue(tweet_id) == IF tweet_id # None THEN "True" ELSE "False"

\* the whole of pop_and_post(account_prefix, path) for given transport outcomes:
\* what it returns or raises, the files afterwards, and the calls it made
pop_and_post(e, files, prefix, path, v2, v1) ==
    LET dry_run == PopDryRun(e)
        data == load_queue(files, path)
        queue == data.queue
        thread_root_id == data.thread_root_id
    IN  IF queue = <<>>
        THEN PopEmpty(files)
        ELSE
        LET item == Head(queue)
            rest == Tail(queue)
            tweet_text == TweetText(item)
            r == IF Truthy(thread_root_id)
                 THEN post_reply_tweet(e, tweet_text, thread_root_id, prefix, v2, v1)
                 ELSE post_tweet(e, tweet_text, prefix, v2, v1)
            made == IF Truthy(thread_root_id)
                    THEN PublishCall("post_reply_tweet", tweet_text, thread_root_id, prefix, r)
                    ELSE PublishCall("post_tweet", tweet_text, None, prefix, r)
            tweet_id == r.value
            new_root == NewRoot(thread_root_id, tweet_id, dry_run)
        IN  IF r.kind = "raise"
            THEN [kind |-> "raise", value |-> r.value, files |-> files,
                  publishes |-> <<made>>, calls |-> r.calls]
            ELSE [kind |-> "return",
                  value |-> PopReturnValue(tweet_id),
                  \* save_queue(save_payload): the path argument is not passed on
                  files |-> save_queue(files, SavePayload(rest, item, new_root, dry_run),
                                       DefaultPath),
                  publishes |-> <<made>>, calls |-> r.calls]

-----------------------------------------------------------------------------
(* The publisher called directly, and the pop tool run again and again: *)
(* SpecPublish                                                           *)

PostTexts == {<<LETTER>>, <<LETTER, SP, ELLIPSIS>>}
ReplyIds == {"901", "902"}

\* environments of a direct publish call: each credential unset, empty or set
Envs ==
    { [n \in EnvNames |->
         IF n = <<"DRY_RUN">> THEN d
         ELSE IF n = <<"X_CONSUMER_KEY">> THEN k1
         ELSE IF n = <<"X_CONSUMER_SECRET">> THEN k2
         ELSE IF n = <<"X_ACCESS_TOKEN">> THEN k3
         ELSE IF n = <<"X_ACCESS_TOKEN_SECRET">> THEN k4
         ELSE IF n = <<"ALT", "_", "X_CONSUMER_KEY">> THEN a1
         ELSE IF n = <<"ALT", "_", "X_ACCESS_TOKEN_SECRET">> THEN a4
         ELSE "k"] :
      d \in {None, "0", "1"},
      k1 \in {None, "", "k"}, k2 \in {None, "k"}, k3 \in {"", "k"},
      k4 \in {None, "", "k"}, a1 \in {None, "k"}, a4 \in {"", "k"} }

\* environments of a pop run: dry-run on or off, either account complete or not
PopEnvs ==
    { e \in Envs : /\ e[<<"DRY_RUN">>] \in {"0", "1"}
                   /\ e[<<"X_CONSUMER_KEY">>] = "k"
                   /\ e[<<"X_CONSUMER_SECRET">>] = "k"
                   /\ e[<<"X_ACCESS_TOKEN_SECRET">>] = "k"
                   /\ e[<<"ALT", "_", "X_ACCESS_TOKEN_SECRET">>] = "k" }

\* the queue file as a build or an earlier pop left it
QueueFiles ==
    {NoFile}
    \cup {BuiltFile(q) : q \in SeqsUpTo(Items, MaxQueue)}
    \cup {SavedFile(q, Item1, "1001", FALSE) : q \in SeqsUpTo(Items, MaxQueue)}

OtherFiles ==
    {NoFile, BuiltFile(<<Item2, Item1>>), SavedFile(<<Item2>>, Item1, "2002", FALSE)}

NoRet == [kind |-> "none", value |-> None]

InitPublish ==
    /\ pc \in {"post_idle", "pop_idle"}
    /\ IF pc = "post_idle"
       THEN env \in Envs /\ fs = [p \in Paths |-> NoFile]
       ELSE env \in PopEnvs
            /\ fs \in {[p \in Paths |-> IF p = DefaultPath THEN f ELSE g] :
                        f \in QueueFiles, g \in OtherFiles}
    /\ publish_log = <<>>
    /\ transport_log = <<>>
    /\ ret = NoRet
    /\ entry = None /\ attempts = 0 /\ market_wrap = NoWrap /\ gen_log = <<>>
    /\ IdleClamp /\ IdleTools

\* one direct call of post_tweet(text, account_prefix)
PostTweet ==
    /\ pc = "post_idle"
    /\ \E t \in PostTexts, prefix \in Prefixes, v2 \in V2Outcomes, v1 \in V1Outcomes :
         LET r == post_tweet(env, t, prefix, v2, v1)
         IN  /\ publish_log' = <<PublishCall("post_tweet", t, None, prefix, r)>>
             /\ transport_log' = r.calls
             /\ ret' = [kind |-> r.kind, value |-> r.value]
    /\ pc' = "post_done"
    /\ UNCHANGED <<env, text, max_len, result, entry, attempts, market_wrap,
                   gen_log, fs>>
    /\ UNCHANGED <<built, pop_run, history, requests, procs>>

\* one direct call of post_reply_tweet(text, reply_to_tweet_id, account_prefix)
PostReplyTweet ==
    /\ pc = "post_idle"
    /\ \E t \in PostTexts, id \in ReplyIds, prefix \in Prefixes,
          v2 \in V2Outcomes, v1 \in V1Outcomes :
         LET r == post_reply_tweet(env, t, id, prefix, v2, v1)
         IN  /\ publish_log' = <<PublishCall("post_reply_tweet", t, id, prefix, r)>>
             /\ transport_log' = r.calls
             /\ ret' = [kind |-> r.kind, value |-> r.value]
    /\ pc' = "post_done"
    /\ UNCHANGED <<env, text, max_len, result, entry, attempts, market_wrap,
                   gen_log, fs>>
    /\ UNCHANGED <<built, pop_run, history, requests, procs>>

\* one run of pop_and_post(account_prefix, path); the logs are those of this run
PopAndPost ==
    /\ pc = "pop_idle"
    /\ \E prefix \in Prefixes, path \in Paths, v2 \in V2Outcomes, v1 \in V1Outcomes :
         LET r == pop_and_post(env, fs, prefix, path, v2, v1)
         IN  /\ fs' = r.files
             /\ publish_log' = r.publishes
             /\ transport_log' = r.calls
             /\ ret' = [kind |-> r.kind, value |-> r.value]
    /\ pc' = "pop_idle"
    /\ UNCHANGED <<env, text, max_len, result, entry, attempts, market_wrap, gen_log>>
    /\ UNCHANGED <<built, pop_run, history, requests, procs>>

NextPublish == PostTweet \/ PostReplyTweet \/ PopAndPost

SpecPublish == InitPublish /\ [][NextPublish]_vars

\* the publish call of the current direct call or pop run, when one was made
Published == publish_log # <<>>
ThePublish == publish_log[1]

DryRunOn == env[<<"DRY_RUN">>] = "1"

\* the four credentials of the account, read from the environment by name
CredentialsComplete(prefix) ==
    \A sfx \in Suffixes :
        LET name == IF prefix \in {None, ""} THEN <<sfx>> ELSE <<prefix, "_", sfx>>
        IN  env[name] \notin {None, ""}

BothTransportsFailed ==
    /\ Len(transport_log) = 2
    /\ transport_log[1].raised /\ transport_log[2].raised

\* C7: outside dry-run one publish call invokes v2 first; v1.1 is invoked only
\* if the v2 call raised, with the same text and the same reply-to id; each
\* transport at most once, so at most two invocations and no further retry.
C7_V2ThenLegacyOnce ==
    /\ Len(transport_log) <= 2
    /\ transport_log # <<>> =>
          /\ Published /\ ~DryRunOn
          /\ transport_log[1].transport = "v2"
          /\ transport_log[1].text = ThePublish.text
          /\ transport_log[1].reply_to = ThePublish.reply_to
          /\ (ThePublish.op = "post_tweet") = (ThePublish.reply_to = None)
          /\ (Len(transport_log) = 2) = transport_log[1].raised
    /\ Len(transport_log) = 2 =>
          /\ transport_log[2].transport = "v1.1"
          /\ transport_log[2].text = transport_log[1].text
          /\ transport_log[2].reply_to = transport_log[1].reply_to
    /\ (Published /\ ~DryRunOn /\ CredentialsComplete(ThePublish.prefix))
          => transport_log # <<>>

\* C7 witness: a reply whose v2 call raised and whose v1.1 call returned an id
C7_Witness ==
    /\ Published /\ ThePublish.op = "post_reply_tweet"
    /\ Len(transport_log) = 2
    /\ transport_log[2].reply_to = "902"
    /\ ~transport_log[2].raised
    /\ ret.value = "2002"

\* C8 as claimed: when both transports fail, post_tweet lets the v1.1 error
\* reach the caller, and post_reply_tweet returns None.
C8_PostPropagatesReplyReturnsNone ==
    (pc = "post_done" /\ BothTransportsFailed) =>
        /\ ThePublish.op = "post_tweet" => ret.kind = "raise"
        /\ ThePublish.op = "post_reply_tweet" => (ret.kind = "return" /\ ret.value = None)

\* C8 amended: when both transports fail, post_tweet and post_reply_tweet
\* alike catch the v1.1 error and return None; nothing reaches the caller.
C8_BothReturnNone ==
    (Published /\ BothTransportsFailed) =>
        (ThePublish.kind = "return" /\ ThePublish.value = None)

\* C8 witness: a fresh post whose two transports both raised
C8_Witness ==
    /\ pc = "post_done" /\ BothTransportsFailed
    /\ ThePublish.op = "post_tweet"
    /\ ret = [kind |-> "return", value |-> None]

\* C9 as claimed: whenever the four credentials of the selected account are
\* not all present and non-empty, the publish call fails with the credential
\* error and makes no transport call.
C9_MissingCredentialsAlwaysRaise ==
    (Published /\ ~CredentialsComplete(ThePublish.prefix)) =>
        /\ ThePublish.kind = "raise" /\ ThePublish.value = "RuntimeError"
        /\ transport_log = <<>>

\* C9 amended: outside dry-run, whenever the four credentials of the selected
\* account are not all present and non-empty, post_tweet and post_reply_tweet
\* fail with the credential error and make no transport call; with complete
\* credentials no credential error is raised.  (In dry-run the credentials
\* are not read: the sentinel is returned.)
C9_MissingCredentialsRaiseOutsideDryRun ==
    (Published /\ ~DryRunOn) =>
        /\ ~CredentialsComplete(ThePublish.prefix) =>
              /\ ThePublish.kind = "raise" /\ ThePublish.value = "RuntimeError"
              /\ transport_log = <<>>
        /\ CredentialsComplete(ThePublish.prefix) => ThePublish.kind = "return"

\* C9 witness: a reply for account ALT, whose key is unset while the
\* unprefixed account is complete
C9_Witness ==
    /\ pc = "post_done" /\ ~DryRunOn
    /\ ThePublish.op = "post_reply_tweet" /\ ThePublish.prefix = "ALT"
    /\ ~CredentialsComplete("ALT") /\ CredentialsComplete(None)
    /\ ret = [kind |-> "raise", value |-> "RuntimeError"]
    /\ transport_log = <<>>

\* a pop run that took an item off the queue and came to its end
PopPersisted == pc = "pop_idle" /\ Published /\ ret.kind = "return"

\* C10 as claimed: in dry-run no transport is invoked, every publish call
\* returns the same fixed sentinel id, for a fresh post and a reply alike, and
\* the state persisted by pop_and_post contains dry_run: true.
C10_OneSentinelForAll ==
    DryRunOn =>
        /\ transport_log = <<>>
        /\ Published => (ThePublish.kind = "return" /\ ThePublish.value = "dry_run_tweet_id")
        /\ PopPersisted => fs[DefaultPath].dry_run = "true"

\* C10 amended: in dry-run no transport is invoked by post_tweet,
\* post_reply_tweet or pop_and_post; every post_tweet returns the fixed
\* sentinel "dry_run_tweet_id" and every post_reply_tweet the fixed sentinel
\* "dry_run_reply_id"; a pop that takes an item always completes and the
\* state it persists contains dry_run: true.
C10_DryRunSentinels ==
    DryRunOn =>
        /\ transport_log = <<>>
        /\ Published =>
              /\ ThePublish.kind = "return"
              /\ ThePublish.op = "post_tweet" => ThePublish.value = "dry_run_tweet_id"
              /\ ThePublish.op = "post_reply_tweet" => ThePublish.value = "dry_run_reply_id"
        /\ (pc = "pop_idle" /\ Published) =>
              /\ ret = [kind |-> "return", value |-> "True"]
              /\ fs[DefaultPath].exists
              /\ fs[DefaultPath].dry_run = "true"

\* C10 witness: a dry-run pop that published its item as a reply, with
\* incomplete credentials, and persisted dry_run: true
C10_Witness ==
    /\ DryRunOn /\ PopPersisted
    /\ ThePublish.op = "post_reply_tweet"
    /\ ThePublish.value = "dry_run_reply_id"
    /\ ~CredentialsComplete(ThePublish.prefix)
    /\ fs[DefaultPath].dry_run = "true"
    /\ transport_log = <<>>

\* C22: a pop that publishes and returns has taken the head of the queue at
\* one location, the one its path argument names, and afterwards that same
\* location holds the queue without that head; the other location is untouched.
C22_WritesBackWhereLoaded ==
    [][ (pc = "pop_idle" /\ publish_log' # <<>> /\ ret'.kind = "return") =>
          \E path \in Paths :
              /\ fs[path].exists
              /\ fs[path].queue # <<>>
              /\ publish_log'[1].text = clamp_tweet(Head(fs[path].queue).tweet, 280)
              /\ publish_log'[1].reply_to = fs[path].thread_root_id
              /\ fs'[path].queue = Tail(fs[path].queue)
              /\ \A other \in Paths \ {path} : fs'[other] = fs[other] ]_vars

-----------------------------------------------------------------------------
(* The pop tool run again and again on the queue file a build left: SpecQueue *)

\* most pop runs between two builds
MaxPops == 3

\* --account-prefix values given to the tool
AccountPrefixArgs == {"", "ALT"}

\* environments of a tool run: dry-run on or off; the unprefixed account is
\* complete and the account ALT lacks its consumer key
QueueEnvs ==
    { e \in PopEnvs : e[<<"X_ACCESS_TOKEN">>] = "k"
                      /\ e[<<"ALT", "_", "X_CONSUMER_KEY">>] = None }

\* transport outcomes of a tool run: raise, a response without id, one with id
ToolV2Outcomes == { v \in V2Outcomes : v.data_is_dict = (v.has_data /\ v.id # None) }
ToolV1Outcomes == V1Outcomes

\* sys.exit(0 if ok else 1); an uncaught exception ends the interpreter with 1
ExitCode(r) == IF r.kind = "return" /\ r.value = "True" THEN 0 ELSE 1

\* queue_post.main: prefix = args.account_prefix if args.account_prefix else None;
\* ok = pop_and_post(account_prefix=prefix)
pop_main(e, files, account_prefix_arg, v2, v1) ==
    pop_and_post(e, files, IF Truthy(account_prefix_arg) THEN account_prefix_arg ELSE None,
                 DefaultPath, v2, v1)

NoRun == [before |-> NoFile, kind |-> "none", value |-> None, exit_code |-> 1,
          dry |-> FALSE]

InitQueue ==
    /\ pc = "tool_idle"
    /\ env \in QueueEnvs
    /\ fs \in {[p \in Paths |-> IF p = DefaultPath THEN f ELSE NoFile] :
                f \in {NoFile} \cup {BuiltFile(q) : q \in BuiltQueues}}
    /\ built = fs[DefaultPath]
    /\ pop_run = NoRun
    /\ history = <<>>
    /\ requests = <<>>
    /\ procs = None
    /\ publish_log = <<>>
    /\ transport_log = <<>>
    /\ ret = NoRet
    /\ entry = None /\ attempts = 0 /\ market_wrap = NoWrap /\ gen_log = <<>>
    /\ IdleClamp

\* one run of the pop tool, a process of its own with its own environment
PopTool ==
    /\ pc = "tool_idle"
    /\ Len(history) < MaxPops
    /\ \E e \in QueueEnvs, arg \in AccountPrefixArgs,
          v2 \in ToolV2Outcomes, v1 \in ToolV1Outcomes :
       \E r \in {pop_main(e, fs, arg, v2, v1)} :
         LET before == fs[DefaultPath]
         IN  /\ env' = e
             /\ fs' = r.files
             /\ publish_log' = r.publishes
             /\ transport_log' = r.calls
             /\ ret' = [kind |-> r.kind, value |-> r.value]
             /\ pop_run' = [before |-> before, kind |-> r.kind, value |-> r.value,
                            exit_code |-> ExitCode(r), dry |-> PopDryRun(e)]
             /\ history' =
                  IF r.publishes = <<>> THEN history
                  ELSE Append(history,
                         [item |-> Head(before.queue),
                          op |-> r.publishes[1].op,
                          reply_to |-> r.publishes[1].reply_to,
                          kind |-> r.publishes[1].kind,
                          value |-> r.publishes[1].value,
                          dry |-> PopDryRun(e),
                          root_before |-> before.thread_root_id,
                          root_after |-> r.files[DefaultPath].thread_root_id])
    /\ pc' = "tool_idle"
    /\ UNCHANGED <<text, max_len, result, entry, attempts, market_wrap, gen_log, built,
                   requests, procs>>

NextQueue == PopTool

SpecQueue == InitQueue /\ [][NextQueue]_vars

\* the last tool run found a queue with a head item
PopRanOnItems == pop_run.kind # "none" /\ pop_run.before.queue # <<>>

\* the last tool run found no item: file missing or queue empty
PopRanOnEmpty == pop_run.kind # "none" /\ pop_run.before.queue = <<>>

\* C11: a pop that finds the queue empty, or no queue file at all, returns
\* False, makes no publish call and no transport call, and leaves the file as
\* it was: a missing file stays missing, an existing one keeps every field.
C11_EmptyPopIsNoOp ==
    PopRanOnEmpty =>
        /\ ret = [kind |-> "return", value |-> "False"]
        /\ publish_log = <<>>
        /\ transport_log = <<>>
        /\ fs[DefaultPath] = pop_run.before
        /\ fs[OtherPath] = NoFile

\* a pop ran on a file whose queue earlier pops had emptied
C11_Witness ==
    /\ PopRanOnEmpty
    /\ pop_run.before.exists
    /\ history # <<>>
    /\ ret.value = "False"

\* C12: a pop that completes on a non-empty queue leaves in the file the loaded
\* queue without its first element, the other items unchanged and in order,
\* and last_posted is the removed head item.
C12_CompletedPopRemovesHead ==
    (PopRanOnItems /\ pop_run.kind = "return") =>
        /\ fs[DefaultPath].exists
        /\ fs[DefaultPath].queue = Tail(pop_run.before.queue)
        /\ fs[DefaultPath].last_posted = Head(pop_run.before.queue)

\* a completed pop on a queue of two different items left the second one
C12_Witness ==
    /\ PopRanOnItems
    /\ pop_run.kind = "return"
    /\ pop_run.before.queue = <<Item1, Item2>>
    /\ fs[DefaultPath].queue = <<Item2>>
    /\ fs[DefaultPath].last_posted = Item1

\* C13: over the pops since the build: a pop that finds no thread root
\* publishes a fresh root, and the root afterwards is the returned id exactly
\* when an id came back outside dry-run; a pop that finds a root replies to
\* exactly that id and leaves it; each pop finds the root the one before left,
\* and the file holds the root the last one left.
C13_ThreadRootProtocol ==
    /\ \A i \in 1..Len(history) :
         LET h == history[i] IN
         /\ h.root_before = (IF i = 1 THEN built.thread_root_id
                             ELSE history[i - 1].root_after)
         /\ h.root_before = None =>
              /\ h.op = "post_tweet"
              /\ h.reply_to = None
              /\ h.root_after = (IF h.kind = "return" /\ h.value # None /\ ~h.dry
                                 THEN h.value ELSE None)
         /\ h.root_before # None =>
              /\ h.op = "post_reply_tweet"
              /\ h.reply_to = h.root_before
              /\ h.root_after = h.root_before
         /\ h.dry => h.root_after = h.root_before
    /\ history # <<>> => fs[DefaultPath].thread_root_id = history[Len(history)].root_after

\* a fresh root came back from the legacy transport with an id, which became
\* the thread root; the next pop, in dry-run, replied to that id and kept it
C13_Witness ==
    /\ Len(history) = 2
    /\ history[1].op = "post_tweet" /\ ~history[1].dry
    /\ history[1].value = "2002"
    /\ history[1].root_after = "2002"
    /\ history[2].op = "post_reply_tweet" /\ history[2].dry
    /\ history[2].reply_to = "2002"
    /\ fs[DefaultPath].thread_root_id = "2002"

\* C14: a pop that finds a head item writes the updated state before it
\* finishes, whatever the publish step did: the remaining queue, last_posted,
\* the thread root if there is one, and dry_run when dry-run is on.
C14_PopAlwaysPersists ==
    PopRanOnItems =>
        /\ fs[DefaultPath].queue = Tail(pop_run.before.queue)
        /\ fs[DefaultPath].last_posted = Head(pop_run.before.queue)
        /\ fs[DefaultPath].dry_run = (IF pop_run.dry THEN "true" ELSE None)

\* C15: over the pops since the build, the i-th item handed to the publisher is
\* the i-th item the build wrote, so no item is handed over twice and none out
\* of order, and the file holds exactly the items not yet handed over.
C15_EachItemHandedOnceInOrder ==
    /\ Len(history) <= Len(built.queue)
    /\ \A i \in 1..Len(history) :
         i <= Len(built.queue) => history[i].item = built.queue[i]

\* C16: the pop returns True exactly when its publish step returned an id (a
\* transport's id or the dry-run sentinel), and the tool exits with 0 exactly
\* then and with 1 otherwise.
C16_TrueIffIdObtained ==
    pop_run.kind # "none" =>
        LET obtained == /\ publish_log # <<>>
                        /\ publish_log[1].kind = "return"
                        /\ publish_log[1].value # None
        IN  /\ (pop_run.kind = "return" /\ pop_run.value = "True") <=> obtained
            /\ pop_run.exit_code = (IF obtained THEN 0 ELSE 1)

\* both transports came back without an id: the pop returned False and the
\* tool exited with 1, the item gone from the file
C16_Witness ==
    /\ PopRanOnItems
    /\ ~pop_run.dry
    /\ Len(transport_log) = 2
    /\ publish_log[1].kind = "return" /\ publish_log[1].value = None
    /\ pop_run.value = "False"
    /\ pop_run.exit_code = 1

\* C23: every text a pop hands to the publisher, as a fresh post or as a
\* reply, has at most 280 characters, whatever the tweet of the queue item.
C23_PublishedTextWithinLimit ==
    (pop_run.kind # "none" /\ publish_log # <<>>) =>
        \A i \in 1..Len(publish_log) : Len(publish_log[i].text) <= 280

\* the head item's tweet had 287 characters; the publisher got 280, the last
\* one an ellipsis
C23_Witness ==
    /\ PopRanOnItems
    /\ Len(Head(pop_run.before.queue).tweet) > 280
    /\ Len(publish_log) = 1
    /\ Len(publish_log[1].text) = 280
    /\ publish_log[1].text[280] = ELLIPSIS
    /\ publish_log[1].op = "post_reply_tweet"

-----------------------------------------------------------------------------
(* The build tool: SpecBuild *)

\* most elements of the JSON array the remote call returns
MaxArray == 2

\* most topic keys given to the build tool
MaxTopics == 2

\* poster.TOPICS: topic key -> description (two of its keys)
TOPICS == [k \in {"us-markets", "us-options"} |->
             IF k = "us-markets" THEN "US Markets." ELSE "SPY Market."]

\* keys the tool may be given, one of them not in TOPICS
TopicKeys == DOMAIN TOPICS \cup {"bogus"}

\* a key of a JSON object that is not there (dict.get then gives its default)
Absent == "absent"
AbsentText == <<"absent">>

\* the clock readings of datetime.now(timezone.utc).isoformat()
Times == {"t1", "t2"}

\* "Generation failed; will retry later."
FailureNotice ==
    <<"G", "e", "n", "e", "r", "a", "t", "i", "o", "n", " ", "f", "a", "i",
       "l", "e", "d", ";", " ", "w", "i", "l", "l", " ", "r", "e", "t", "r",
       "y", " ", "l", "a", "t", "e", "r", ".">>

\* elements of a JSON value as the loop `for obj in data` sees them: a JSON
\* object with its keys, or something that is not a dict (a number, a string,
\* a key of an object, a character of a string)
JsonObject(topic, tw, citations) ==
    [is_dict |-> TRUE, topic |-> topic, tweet |-> tw, summary |-> Absent,
     citations |-> citations]
NotADict == [is_dict |-> FALSE, topic |-> Absent, tweet |-> AbsentText,
             summary |-> Absent, citations |-> "absent"]
Elements ==
    { JsonObject("US Markets.", <<LETTER, SP, LETTER>>, "list"),
      JsonObject("SPY Market.", <<LETTER>>, "null"),
      JsonObject(Absent, AbsentText, "absent"),
      NotADict }

\* what json.loads(raw_json) gives: it raises ("invalid", which covers an empty
\* text), or a value of one of the JSON types with the elements iteration yields
Json(type, elems) == [type |-> type, elems |-> elems]
JsonValues ==
    {Json("invalid", <<>>), Json("scalar", <<>>)}
    \cup {Json("array", a) : a \in SeqsUpTo(Elements, MaxArray)}
    \cup {Json(t, a) : t \in {"object", "string"}, a \in SeqsUpTo({NotADict}, 1)}

\* client.responses.create: raises, or a response whose text parses to a value
RemoteOutcomes ==
    {[raises |-> TRUE, json |-> Json("invalid", <<>>)]}
    \cup {[raises |-> FALSE, json |-> j] : j \in JsonValues}

\* obj.get(key, default): the default when the key is absent
DictGet(value, absent, default) == IF value = absent THEN default ELSE value

\* obj.get("citations", []) or []
CitationsOf(obj) == IF obj.citations = "list" THEN <<"url-1">> ELSE <<>>

\* (mutant) every item carries a clock reading of its own
BuiltItemOwnClock(obj, now_iso) ==
    [topic |-> DictGet(obj.topic, Absent, ""),
     tweet |-> DictGet(obj.tweet, AbsentText, <<>>),
     summary |-> DictGet(obj.summary, Absent, ""),
     citations |-> CitationsOf(obj),
     created_at |-> "t0"]

\* the item appended for one element of the array
BuiltItem(obj, now_iso) ==
    [topic |-> DictGet(obj.topic, Absent, ""),
     tweet |-> DictGet(obj.tweet, AbsentText, <<>>),
     summary |-> DictGet(obj.summary, Absent, ""),
     citations |-> CitationsOf(obj),
     created_at |-> now_iso]

\* the placeholder item of the except branch for one topic
Placeholder(t, now_iso) ==
    [topic |-> t, tweet |-> FailureNotice, summary |-> "",
     citations |-> <<>>, created_at |-> now_iso]

\* the state returned by the except branch
Fallback(topics, now_iso, exc) ==
    [NoFile EXCEPT !.exists = TRUE,
                   !.queue = [i \in 1..Len(topics) |-> Placeholder(topics[i], now_iso)],
                   !.generated_at = now_iso,
                   !.error = exc]

\* generate_queue(topics): one remote call, the text parsed, one item per
\* element; any exception on the way gives the fallback state
generate_queue(topics, remote, now_iso) ==
    LET data == remote.json IN
    IF remote.raises THEN Fallback(topics, now_iso, "APIError")
    ELSE IF data.type = "invalid" THEN Fallback(topics, now_iso, "JSONDecodeError")
    ELSE IF data.type = "scalar" THEN Fallback(topics, now_iso, "TypeError")
    ELSE IF \E i \in 1..Len(data.elems) : ~data.elems[i].is_dict
         THEN Fallback(topics, now_iso, "AttributeError")
    ELSE [NoFile EXCEPT !.exists = TRUE,
                        !.queue = [i \in 1..Len(data.elems) |->
                                     BuiltItem(data.elems[i], now_iso)],
                        !.generated_at = now_iso]

\* write_queue_file(queue, path): the file holds exactly the given state
write_queue_file(files, queue, path) == [files EXCEPT ![path] = queue]

\* queue_build.main on the parsed topic keys: unknown keys end the run before
\* any request; otherwise the descriptions go to generate_queue and the result
\* is written to queue.json
build_main(topic_keys, files, remote, now_iso) ==
    LET missing == {i \in 1..Len(topic_keys) : topic_keys[i] \notin DOMAIN TOPICS} IN
    IF missing # {}
    THEN [kind |-> "raise", value |-> "SystemExit", files |-> files, requests |-> <<>>]
    ELSE LET topic_descriptions == [i \in 1..Len(topic_keys) |-> TOPICS[topic_keys[i]]]
             queue_data == generate_queue(topic_descriptions, remote, now_iso)
         IN  [kind |-> "return", value |-> None,
              files |-> write_queue_file(files, queue_data, "queue.json"),
              requests |-> <<[topics |-> topic_descriptions, outcome |-> remote]>>]

\* the queue file before the build: none, or what an earlier pop saved
PriorFiles == {NoFile, SavedFile(<<Item2>>, Item1, "1001", FALSE)}

InitBuild ==
    /\ pc = "build_idle"
    /\ fs \in {[p \in Paths |-> IF p = DefaultPath THEN f ELSE NoFile] : f \in PriorFiles}
    /\ built = NoFile
    /\ requests = <<>>
    /\ procs = None
    /\ ret = NoRet
    /\ pop_run = NoRun
    /\ history = <<>>
    /\ publish_log = <<>>
    /\ transport_log = <<>>
    /\ IdleEnv
    /\ entry = None /\ attempts = 0 /\ market_wrap = NoWrap /\ gen_log = <<>>
    /\ IdleClamp

\* one run of the build tool
BuildTool ==
    /\ pc = "build_idle"
    /\ \E topic_keys \in SeqsUpTo(TopicKeys, MaxTopics),
          remote \in RemoteOutcomes, now_iso \in Times :
         LET r == build_main(topic_keys, fs, remote, now_iso) IN
         /\ fs' = r.files
         /\ requests' = r.requests
         /\ ret' = [kind |-> r.kind, value |-> r.value]
         /\ built' = IF r.kind = "return" THEN r.files[DefaultPath] ELSE built
         /\ pc' = IF r.kind = "return" THEN "build_done" ELSE "build_exit"
    /\ UNCHANGED <<env, text, max_len, result, entry, attempts, market_wrap, gen_log,
                   publish_log, transport_log, pop_run, history, procs>>

NextBuild == BuildTool

SpecBuild == InitBuild /\ [][NextBuild]_vars

\* the build made its remote request; what was asked and what came back
Requested == requests # <<>>
TheTopics == requests[1].topics
TheOutcome == requests[1].outcome

\* the remote call returned text that parses to a JSON array of objects
ArrayOfObjects(o) ==
    /\ ~o.raises
    /\ o.json.type = "array"
    /\ \A i \in 1..Len(o.json.elems) : o.json.elems[i].is_dict

\* C17: when the remote call fails, or what it returns is not a JSON array of
\* objects, the build does not raise and its state has one placeholder per
\* topic, in topic order, with the failure notice, empty summary and empty
\* citations, and an error field.
C17_FallbackOnEveryBadOutput ==
    (Requested /\ ~ArrayOfObjects(TheOutcome)) =>
        /\ ret.kind = "return"
        /\ Len(built.queue) = Len(TheTopics)
        /\ \A i \in 1..Len(built.queue) :
             /\ built.queue[i].topic = TheTopics[i]
             /\ built.queue[i].tweet = FailureNotice
             /\ built.queue[i].summary = ""
             /\ built.queue[i].citations = <<>>
        /\ built.error # None

\* C18: when the remote call returns a JSON array of objects, the build made
\* exactly one request, its queue has one item per element in the same order
\* carrying that element's topic and tweet, every created_at is the state's
\* generated_at, and there is no error field.
C18_OneRequestOneItemPerElement ==
    (Requested /\ ArrayOfObjects(TheOutcome)) =>
        LET elems == TheOutcome.json.elems IN
        /\ Len(requests) = 1
        /\ Len(built.queue) = Len(elems)
        /\ \A i \in 1..Len(elems) :
             /\ built.queue[i].topic = (IF elems[i].topic = Absent THEN "" ELSE elems[i].topic)
             /\ built.queue[i].tweet = (IF elems[i].tweet = AbsentText THEN <<>> ELSE elems[i].tweet)
             /\ built.queue[i].created_at = built.generated_at
        /\ built.generated_at \in Times
        /\ built.error = None
        /\ fs[DefaultPath] = built

\* two topics, an array of two different objects: two items in that order
C18_Witness ==
    /\ Requested
    /\ Len(TheTopics) = 2
    /\ ArrayOfObjects(TheOutcome)
    /\ Len(built.queue) = 2
    /\ built.queue[1].topic = "SPY Market."
    /\ built.queue[2].topic = "US Markets."
    /\ built.queue[2].citations = <<"url-1">>
    /\ built.queue[1].created_at = "t2"
    /\ built.generated_at = "t2"

\* C19: for a non-empty list of topics and every outcome of the remote call,
\* the queue the build writes to the file is not empty.
C19_BuiltQueueNeverEmpty ==
    (Requested /\ TheTopics # <<>>) =>
        /\ fs[DefaultPath].exists
        /\ fs[DefaultPath].queue # <<>>

-----------------------------------------------------------------------------
(* The single-shot poster's main after the generation *)

\* main has gone past its call of post_tweet
MainPastPrimaryPublish ==
    entry = "main" /\ pc \notin {"gen_loop", "gen_final", "gen_returned", "gen_raised"}

\* C20: in main the generated primary post is published first: once main is
\* past that step, post_tweet has run on the generated tweet's exact text, and
\* main goes on to the reply step or to its report, not out by an exception.
C20_PrimaryPublishedThenReplyOrReport ==
    MainPastPrimaryPublish =>
        /\ Len(publish_log) >= 1
        /\ publish_log[1].op = "post_tweet"
        /\ publish_log[1].text = market_wrap.tweet
        /\ ret.kind # "TypeError"

-----------------------------------------------------------------------------
(* Tool runs as separate processes on one queue file, with no lock: SpecRace *)

\* two runs of the pop tool and one of the build tool
PopProcs == {"pop-1", "pop-2"}
BuildProc == "build"
Procs == PopProcs \cup {BuildProc}

\* a process before its first step
NotStarted == [pc |-> "start", data |-> NoFile, result |-> NoRet]

\* what the build's remote call gives in these runs: two objects, or an error
RaceRemotes ==
    { [raises |-> FALSE,
       json |-> Json("array", <<JsonObject("US Markets.", <<LETTER, SP, LETTER>>, "list"),
                                JsonObject("SPY Market.", <<LETTER>>, "null")>>)],
      [raises |-> TRUE, json |-> Json("invalid", <<>>)] }

\* one entry of the log of steps: who, which step, the item concerned, the
\* publish result, and for a write the file before it and the state written
Event(p, step, item, r, before, written) ==
    [proc |-> p, step |-> step, item |-> item, kind |-> r.kind, value |-> r.value,
     before |-> before, written |-> written]

InitRace ==
    /\ pc = "race"
    /\ env \in QueueEnvs
    /\ fs \in {[p \in Paths |-> IF p = DefaultPath THEN f ELSE NoFile] :
                f \in {BuiltFile(<<Item1, Item2>>), BuiltFile(<<Item2>>)}}
    /\ built = fs[DefaultPath]
    /\ procs = [p \in Procs |-> NotStarted]
    /\ history = <<>>
    /\ requests = <<>>
    /\ pop_run = NoRun
    /\ publish_log = <<>>
    /\ transport_log = <<>>
    /\ ret = NoRet
    /\ entry = None /\ attempts = 0 /\ market_wrap = NoWrap /\ gen_log = <<>>
    /\ IdleClamp

\* pop_and_post up to the emptiness test: data = load_queue(path)
PopLoad(p) ==
    /\ procs[p].pc = "start"
    /\ LET data == load_queue(fs, DefaultPath) IN
       /\ procs' = [procs EXCEPT ![p] =
                      [pc |-> IF data.queue = <<>> THEN "done" ELSE "loaded",
                       data |-> data,
                       result |-> IF data.queue = <<>>
                                  THEN [kind |-> "return", value |-> "False"]
                                  ELSE NoRet]]
       /\ history' = Append(history,
                        Event(p, "load", IF data.queue = <<>> THEN NoItem ELSE Head(data.queue),
                              NoRet, NoFile, NoFile))
    /\ UNCHANGED <<fs, publish_log, transport_log>>

\* pop_and_post from queue.pop(0) to the publish call's end
PopPublish(p) ==
    /\ procs[p].pc = "loaded"
    /\ \E arg \in AccountPrefixArgs, v2 \in ToolV2Outcomes, v1 \in ToolV1Outcomes :
         LET prefix == IF Truthy(arg) THEN arg ELSE None
             item == Head(procs[p].data.queue)
             thread_root_id == procs[p].data.thread_root_id
         IN  \E r \in {IF Truthy(thread_root_id)
                       THEN post_reply_tweet(env, TweetText(item), thread_root_id, prefix, v2, v1)
                       ELSE post_tweet(env, TweetText(item), prefix, v2, v1)} :
               /\ procs' = [procs EXCEPT ![p].pc = IF r.kind = "raise" THEN "done"
                                                   ELSE "published",
                                         ![p].result = [kind |-> r.kind, value |-> r.value]]
               /\ transport_log' = r.calls
               /\ publish_log' =
                    <<PublishCall(IF Truthy(thread_root_id) THEN "post_reply_tweet"
                                  ELSE "post_tweet",
                                  TweetText(item), thread_root_id, prefix, r)>>
               /\ history' = Append(history, Event(p, "publish", item, r, NoFile, NoFile))
    /\ UNCHANGED fs

\* pop_and_post from save_payload to the return
PopSave(p) ==
    /\ procs[p].pc = "published"
    /\ LET data == procs[p].data
           tweet_id == procs[p].result.value
           dry_run == PopDryRun(env)
           save_payload == SavePayload(Tail(data.queue), Head(data.queue),
                                       NewRoot(data.thread_root_id, tweet_id, dry_run),
                                       dry_run)
       IN  /\ fs' = save_queue(fs, save_payload, DefaultPath)
           /\ procs' = [procs EXCEPT ![p].pc = "done",
                                     ![p].result = [kind |-> "return",
                                                    value |-> PopReturnValue(tweet_id)]]
           /\ history' = Append(history,
                            Event(p, "save", Head(data.queue), procs[p].result,
                                  fs[DefaultPath], save_payload))
    /\ UNCHANGED <<publish_log, transport_log>>

\* one run of the pop tool, step by step
PopStep ==
    /\ pc = "race"
    /\ \E p \in PopProcs : PopLoad(p) \/ PopPublish(p) \/ PopSave(p)
    /\ UNCHANGED <<pc, env, text, max_len, result, entry, attempts, market_wrap, gen_log,
                   ret, built, pop_run, requests>>

\* the build tool: it never reads the file, so its remote call and its write
\* act on the file as one step
BuildStep ==
    /\ pc = "race"
    /\ procs[BuildProc].pc = "start"
    /\ \E remote \in RaceRemotes :
         LET r == build_main(<<"us-markets", "us-options">>, fs, remote, "t1") IN
         /\ fs' = r.files
         /\ requests' = r.requests
         /\ built' = r.files[DefaultPath]
         /\ procs' = [procs EXCEPT ![BuildProc].pc = "done"]
         /\ history' = Append(history,
                          Event(BuildProc, "write", NoItem, NoRet,
                                fs[DefaultPath], r.files[DefaultPath]))
    /\ UNCHANGED <<pc, env, text, max_len, result, entry, attempts, market_wrap, gen_log,
                   ret, pop_run, publish_log, transport_log>>

NextRace == PopStep \/ BuildStep

SpecRace == InitRace /\ [][NextRace]_vars

\* the runs did not overlap: the steps of each process are next to each other
\* in the log, and a process still in its run is the one that stepped last
Serialized ==
    /\ \A i, k \in 1..Len(history) :
         (i < k /\ history[i].proc = history[k].proc) =>
             \A j \in i..k : history[j].proc = history[i].proc
    /\ \A p \in Procs :
         procs[p].pc \notin {"start", "done"} => history[Len(history)].proc = p

\* two pop runs each completed a publish call for the same item
SameItemPublishedTwice ==
    \E i, j \in 1..Len(history) :
        /\ history[i].proc # history[j].proc
        /\ history[i].step = "publish" /\ history[j].step = "publish"
        /\ history[i].kind = "return" /\ history[j].kind = "return"
        /\ history[i].item = history[j].item

\* a pop's write replaced a file state it had not loaded: what another run
\* wrote in between is gone
UpdateDiscarded ==
    \E k \in 1..Len(history) :
        /\ history[k].step = "save"
        /\ \/ history[k].written.queue # Tail(history[k].before.queue)
           \/ /\ history[k].before.thread_root_id # None
              /\ history[k].written.thread_root_id # history[k].before.thread_root_id

\* C21: when the tool runs are serialized, no item is published by two pops
\* and no write discards another run's update. (That both can happen when runs
\* overlap is the reachable state C21_Witness.)
C21_SerializedRunsDoNotInterfere ==
    Serialized => (~SameItemPublishedTwice /\ ~UpdateDiscarded)

\* overlapping runs, all finished: both pops loaded and published Item1, the
\* build wrote its queue in between, and a pop's write then replaced the
\* build's queue with the old remainder
C21_Witness ==
    /\ ~Serialized
    /\ \A p \in Procs : procs[p].pc = "done"
    /\ SameItemPublishedTwice
    /\ \E i, j \in 1..Len(history) :
         /\ history[i].step = "publish" /\ history[j].step = "publish"
         /\ history[i].proc = "pop-1" /\ history[j].proc = "pop-2"
         /\ history[i].item = Item1 /\ history[j].item = Item1
         /\ history[i].kind = "return" /\ history[j].kind = "return"
    /\ \E k \in 1..Len(history) :
         /\ history[k].step = "save"
         /\ history[k].before = built
         /\ Len(built.queue) = 2
         /\ built.generated_at = "t1"
    /\ fs[DefaultPath].queue = <<Item2>>

=============================================================================
